---------------------------- MODULE Spec2Model ----------------------------
(***************************************************************************)
(* A state-machine model of the notebook                                   *)
(*   guides/ipynb/keras_core/getting_started_with_keras_core.ipynb         *)
(*                                                                         *)
(* The notebook is a straight-line script.  Its state is the Python        *)
(* namespace of the kernel (x_train, model, ...), the process environment  *)
(* (KERAS_BACKEND), the objects the script creates and the files they      *)
(* write.  Every statement of a code cell is one action; model.fit is      *)
(* unfolded into its epochs.                                               *)
(*                                                                         *)
(* The script's statements call numpy and keras_core.  What a call does    *)
(* is given here by the arguments the notebook passes and by the library's *)
(* documented behaviour for them; the notebook's own prose and comments    *)
(* are cited where they state that behaviour.  The model covers the runs   *)
(* in which every library call returns.                                    *)
(***************************************************************************)
EXTENDS Integers, Sequences, FiniteSets, TLC

(***************************************************************************)
(* Bounds of the model.                                                    *)
(***************************************************************************)
\* val_loss takes the values 0..MaxLoss (and NaN)
MaxLoss == 10
\* sample counts of the datasets drawn for the data-preparation cell
MaxSamples == 3
\* batch sizes, feature sizes and unit counts drawn for the custom classes
MaxBatch == 3
MaxDim == 3
MaxUnits == 3

(***************************************************************************)
(* Constants of the program.                                               *)
(***************************************************************************)
\* pixels of the images are 8-bit: 0..255
PixelMax == 255
\* the images are 28 x 28
ImageSide == 28
\* MNIST: 60000 training and 10000 test images
MnistTrain == 60000
MnistTest == 10000
\* x / 255
ScaleDivisor == 255
\* float32 has a 24-bit significand
F32Bits == 24
num_classes == 10
batch_size == 128
epochs == 20
\* EarlyStopping(patience=2)
patience == 2
\* validation_split=0.15, in percent
validation_split == 15
\* MyModel's fits use epochs=1
epochs_speed == 1

Backends == {"jax", "tensorflow", "torch"}
\* the backend keras_core falls back to when KERAS_BACKEND is not set
DefaultBackend == "tensorflow"

(***************************************************************************)
(* float32 arithmetic.  A positive float is [m |-> m, e |-> e], the value  *)
(* m * 2^(-e) with 2^23 <= m < 2^24; zero is [m |-> 0, e |-> 0].           *)
(***************************************************************************)
F32Zero == [m |-> 0, e |-> 0]
F32One == [m |-> 2 ^ (F32Bits - 1), e |-> F32Bits - 1]

\* long division q.r / d, one quotient bit at a time, until q has 24 bits
RECURSIVE DivBits(_, _, _, _)
DivBits(q, r, e, d) ==
    IF q >= 2 ^ (F32Bits - 1)
    THEN [q |-> q, r |-> r, e |-> e]
    ELSE IF 2 * r >= d
         THEN DivBits(2 * q + 1, 2 * r - d, e + 1, d)
         ELSE DivBits(2 * q, 2 * r, e + 1, d)

\* round to nearest, ties to even, then renormalise
F32Round(x, d) ==
    LET up == 2 * x.r > d \/ (2 * x.r = d /\ x.q % 2 = 1)
        m == IF up THEN x.q + 1 ELSE x.q
    IN  IF m = 2 ^ F32Bits
        THEN [m |-> 2 ^ (F32Bits - 1), e |-> x.e - 1]
        ELSE [m |-> m, e |-> x.e]

\* astype("float32") of an 8-bit integer: exact
F32FromInt(n) ==
    IF n = 0 THEN F32Zero ELSE F32Round(DivBits(n, 0, 0, 1), 1)

\* a / d for a float32 a and the integer d: the correctly rounded quotient
F32DivInt(a, d) ==
    IF a.m = 0
    THEN F32Zero
    ELSE F32Round(DivBits(a.m \div d, a.m % d, a.e, d), d)

F32Less(a, b) ==
    IF a.m = 0 THEN b.m > 0
    ELSE IF b.m = 0 THEN FALSE
    ELSE a.e > b.e \/ (a.e = b.e /\ a.m < b.m)

F32LessEq(a, b) == a = b \/ F32Less(a, b)

(***************************************************************************)
(* Arrays.  An array is [shape, dtype, px]: px holds the values of two     *)
(* probed elements of the array (every operation of the data cell is       *)
(* elementwise or changes only the shape).                                 *)
(***************************************************************************)
\* a scaling by 256 instead of 255
ScaleImagesBy256(x) ==
    [shape |-> x.shape,
     dtype |-> "float32",
     px |-> [i \in DOMAIN x.px |-> F32DivInt(F32FromInt(x.px[i]), 256)]]

\* x.astype("float32") / 255
ScaleImages(x) ==
    [shape |-> x.shape,
     dtype |-> "float32",
     px |-> [i \in DOMAIN x.px |-> F32DivInt(F32FromInt(x.px[i]), ScaleDivisor)]]

\* np.expand_dims(x, axis): a new axis of length 1 at position axis
\* (a negative axis counts from the end of the new shape)
ExpandDims(x, axis) ==
    LET n == Len(x.shape)
        pos == IF axis < 0 THEN n + 1 + axis + 1 ELSE axis + 1
    IN  [x EXCEPT !.shape =
            SubSeq(x.shape, 1, pos - 1) \o <<1>> \o SubSeq(x.shape, pos, n)]

\* the axis the data cell passes to np.expand_dims
ExpandAxis == -1

Images(n, p, q) ==
    [shape |-> <<n, ImageSide, ImageSide>>, dtype |-> "uint8", px |-> <<p, q>>]
Labels(n, a, b) ==
    [shape |-> <<n>>, dtype |-> "uint8", px |-> <<a, b>>]

\* keras.datasets.mnist.load_data(): ((x_train, y_train), (x_test, y_test))
MnistData ==
    {[x_train |-> Images(MnistTrain, p, PixelMax),
      y_train |-> Labels(MnistTrain, 5, 0),
      x_test |-> Images(MnistTest, 0, p),
      y_test |-> Labels(MnistTest, 7, 2)] : p \in {0, 1}}

\* datasets of the same layout with other sample counts and pixel values
ImageData ==
    {[x_train |-> Images(n, p, q),
      y_train |-> Labels(n, p % num_classes, q % num_classes),
      x_test |-> Images(k, q, p),
      y_test |-> Labels(k, q % num_classes, p % num_classes)] :
        n \in 1..MaxSamples, k \in {1, MaxSamples},
        p \in 0..PixelMax, q \in {0, PixelMax}}
    \cup
    {[x_train |-> Images(n, p, p + 1),
      y_train |-> Labels(n, 1, 2),
      x_test |-> Images(n, p + 1, p),
      y_test |-> Labels(n, 3, 4)] :
        n \in {1, MaxSamples}, p \in 0..(PixelMax - 1)}

NoArray == [shape |-> <<>>, dtype |-> "none", px |-> <<>>]

(***************************************************************************)
(* The script: the statements of the code cells, top to bottom.            *)
(***************************************************************************)
\* a filepath without the epoch field
CheckpointPathNoEpoch == <<"model_at_epoch", ".keras">>

\* filepath="model_at_epoch_{epoch}.keras", as literal text and fields
CheckpointPath == <<"model_at_epoch_", "{epoch}", ".keras">>
FinalPath == "final_model.keras"

\* a callback list whose EarlyStopping waits one epoch longer
CallbacksPatience3 ==
    <<[cls |-> "ModelCheckpoint", filepath |-> CheckpointPath],
      [cls |-> "EarlyStopping", monitor |-> "val_loss", patience |-> 3]>>

\* callbacks = [ModelCheckpoint(filepath=...), EarlyStopping(monitor=..., patience=2)]
callbacks ==
    <<[cls |-> "ModelCheckpoint", filepath |-> CheckpointPath],
      [cls |-> "EarlyStopping", monitor |-> "val_loss", patience |-> patience]>>

\* a fit that sets aside 85% of the data instead of 15%
FitSequentialSplit85 ==
    [data |-> "arrays", epochs |-> epochs, validation_split |-> 85,
     callbacks |-> callbacks]

\* model.fit(x_train, y_train, batch_size=..., epochs=epochs,
\*           validation_split=0.15, callbacks=callbacks)
FitSequential ==
    [data |-> "arrays", epochs |-> epochs, validation_split |-> validation_split,
     callbacks |-> callbacks]
\* model.fit(x_train, y_train, batch_size=..., epochs=1, validation_split=0.15)
FitMyModel ==
    [data |-> "arrays", epochs |-> epochs_speed,
     validation_split |-> validation_split, callbacks |-> <<>>]
\* model.fit(train_dataloader, epochs=1, validation_data=val_dataloader)
FitDataLoader ==
    [data |-> "torch", epochs |-> epochs_speed, validation_split |-> 0,
     callbacks |-> <<>>]
\* model.fit(train_dataset, epochs=1, validation_data=test_dataset)
FitTfData ==
    [data |-> "tf", epochs |-> epochs_speed, validation_split |-> 0,
     callbacks |-> <<>>]

\* the code cells, top to bottom, each with its statements
Cells ==
    <<<<[op |-> "pip_install"]>>,
      <<[op |-> "setenv"],
        [op |-> "import_keras"]>>,
      <<[op |-> "load_data"],
        [op |-> "scale", var |-> "x_train"],
        [op |-> "scale", var |-> "x_test"],
        [op |-> "expand_dims", var |-> "x_train"],
        [op |-> "expand_dims", var |-> "x_test"]>>,
      <<[op |-> "construct", cls |-> "Sequential"]>>,
      <<[op |-> "summary"]>>,
      <<[op |-> "compile"]>>,
      <<[op |-> "fit", cfg |-> FitSequential],
        [op |-> "evaluate"]>>,
      <<[op |-> "save", path |-> FinalPath]>>,
      <<[op |-> "load_model", path |-> FinalPath]>>,
      <<[op |-> "predict"]>>,
      <<[op |-> "class", name |-> "MyDense"]>>,
      <<[op |-> "class", name |-> "MyDropout"]>>,
      <<[op |-> "class", name |-> "MyModel"]>>,
      <<[op |-> "construct", cls |-> "MyModel"],
        [op |-> "compile"],
        [op |-> "fit", cfg |-> FitMyModel]>>,
      <<[op |-> "import", lib |-> "torch"],
        [op |-> "datasets", lib |-> "torch"],
        [op |-> "construct", cls |-> "MyModel"],
        [op |-> "compile"],
        [op |-> "fit", cfg |-> FitDataLoader]>>,
      <<[op |-> "import", lib |-> "tensorflow"],
        [op |-> "datasets", lib |-> "tf"],
        [op |-> "construct", cls |-> "MyModel"],
        [op |-> "compile"],
        [op |-> "fit", cfg |-> FitTfData]>>>>

\* running the cells in order: their statements, one cell after the other
RECURSIVE RunAll(_)
RunAll(cells) ==
    IF cells = <<>> THEN <<>> ELSE Head(cells) \o RunAll(Tail(cells))

\* a setup cell that imports keras_core before it sets KERAS_BACKEND
ScriptImportFirst ==
    RunAll([Cells EXCEPT ![2] = <<@[2], @[1]>>])

\* a MyModel cell that calls fit before compile
ScriptFitFirst ==
    RunAll([Cells EXCEPT ![14] = <<@[1], @[3], @[2]>>])

Script == RunAll(Cells)

Stmts == 1..Len(Script)
\* a script has no jumps: the statement after i is i + 1
NextPc(i) == i + 1

\* the positions of the first model.fit and of the data cell's first statement
FirstFit ==
    CHOOSE i \in Stmts :
        Script[i].op = "fit" /\ \A j \in 1..(i - 1) : Script[j].op # "fit"
DataCell == CHOOSE i \in Stmts : Script[i].op = "load_data"

(***************************************************************************)
(* Values of val_loss.  Inf stands for np.inf and NaN for a NaN loss: no   *)
(* loss is below NaN and NaN is below nothing.                             *)
(***************************************************************************)
Inf == MaxLoss + 1
NaN == MaxLoss + 2
LossValues == (0..MaxLoss) \cup {NaN}

(***************************************************************************)
(* State.                                                                  *)
(***************************************************************************)
VARIABLES
    backend_string, \* the string the setup cell assigns to KERAS_BACKEND
    mnist,          \* what keras.datasets.mnist.load_data() returns
    pc,             \* the position in Script of the next statement
    runs,           \* how many times each statement has been executed
    environ,        \* os.environ["KERAS_BACKEND"], "unset" when absent
    backend,        \* the backend keras_core runs on, "none" before the import
    imports,        \* the modules imported so far
    ns,             \* the kernel's namespace
    objs,           \* the model instances created so far, by identity
    files,          \* the files this run has written so far, by path
    fit,            \* the model.fit call in progress, or the last one
    es,             \* the EarlyStopping callback's wait and best
    seen,           \* of the val_loss values of this fit: their minimum, and the
                    \* number of epochs since one was below all those before it
    trace,          \* the calls made so far, in order
    inst,           \* an instance of MyDense, MyDropout or MyModel
    io              \* the shape of the tensor given to inst, and what its
                    \* call returned

vars ==
    <<backend_string, mnist, pc, runs, environ, backend, imports, ns, objs,
      files, fit, es, seen, trace, inst, io>>

NoFit ==
    [active |-> FALSE, stmt |-> 0, obj |-> 0, epoch |-> 0,
     train |-> [src |-> "none", lo |-> 0, hi |-> 0],
     val |-> [src |-> "none", lo |-> 0, hi |-> 0],
     stop_training |-> FALSE, used |-> {}]

InitCommon ==
    /\ backend_string \in Backends
    /\ objs = <<>>
    /\ files = <<>>
    /\ fit = NoFit
    /\ es = [wait |-> 0, best |-> Inf]
    /\ seen = [min |-> Inf, noimp |-> 0]

NoInst == [cls |-> "none"]
NoCall == [x |-> <<>>, called |-> FALSE, y |-> <<>>, stages |-> <<>>]

Init ==
    /\ InitCommon
    /\ inst = NoInst
    /\ io = NoCall
    /\ mnist \in MnistData
    /\ pc = 1
    /\ runs = [i \in Stmts |-> 0]
    /\ environ = "unset"
    /\ backend = "none"
    /\ imports = {"numpy", "os"}
    /\ ns = [x_train |-> NoArray, y_train |-> NoArray, x_test |-> NoArray,
             y_test |-> NoArray, model |-> 0, score |-> "none",
             predictions |-> NoArray, classes |-> {}, datasets |-> {}]
    /\ trace = <<>>

(***************************************************************************)
(* What the library calls do.                                              *)
(***************************************************************************)
RECURSIVE Join(_)
Join(parts) == IF parts = <<>> THEN "" ELSE Head(parts) \o Join(Tail(parts))

\* filepath.format(epoch=n)
Format(filepath, n) ==
    Join([i \in DOMAIN filepath |->
            IF filepath[i] = "{epoch}" THEN ToString(n) ELSE filepath[i]])

\* writing a file creates it or replaces its content
WriteFile(fs, path, content) ==
    LET n == IF path \in DOMAIN fs THEN fs[path].writes + 1 ELSE 1
        rec == [arch |-> content.arch, weights |-> content.weights,
                at_epoch |-> content.at_epoch, writes |-> n]
    IN  [q \in (DOMAIN fs) \cup {path} |-> IF q = path THEN rec ELSE fs[q]]

\* ModelCheckpoint.on_epoch_end(epoch): with the default save_freq="epoch" the
\* model is saved to filepath.format(epoch=epoch + 1)
ModelCheckpointEpochEnd(cb, epoch, m, st) ==
    [st EXCEPT !.files =
        WriteFile(st.files, Format(cb.filepath, epoch + 1),
                  [arch |-> m.cls, weights |-> m.weights, at_epoch |-> epoch + 1])]

\* monitor "val_loss": mode min, min_delta 0
IsImprovement(current, best) == current # NaN /\ current < best

\* EarlyStopping.on_train_begin()
EarlyStoppingTrainBegin == [wait |-> 0, best |-> Inf]

\* EarlyStopping.on_epoch_end(epoch, logs)
EarlyStoppingEpochEnd(cb, epoch, logs, st) ==
    IF cb.monitor \notin DOMAIN logs
    THEN st
    ELSE LET current == logs[cb.monitor]
             wait == st.es.wait + 1
         IN  IF IsImprovement(current, st.es.best)
             THEN [st EXCEPT !.es = [wait |-> 0, best |-> current]]
             ELSE [st EXCEPT !.es = [wait |-> wait, best |-> st.es.best],
                             !.stop = st.stop \/ (wait >= cb.patience /\ epoch > 0)]

\* CallbackList.on_epoch_end: every callback, in the order of the list
RECURSIVE CallbacksEpochEnd(_, _, _, _, _)
CallbacksEpochEnd(cbs, epoch, logs, m, st) ==
    IF cbs = <<>>
    THEN st
    ELSE LET cb == Head(cbs)
             st1 == IF cb.cls = "ModelCheckpoint"
                    THEN ModelCheckpointEpochEnd(cb, epoch, m, st)
                    ELSE EarlyStoppingEpochEnd(cb, epoch, logs, st)
         IN  CallbacksEpochEnd(Tail(cbs), epoch, logs, m, st1)

\* validation_split on array inputs: the last samples are set aside, once,
\* before the first epoch; split_at = floor(n * (1 - validation_split))
SplitAt(n, percent) == (n * (100 - percent)) \div 100

TrainPart(cfg, space) ==
    IF cfg.validation_split > 0
    THEN [src |-> "train", lo |-> 0,
          hi |-> SplitAt(space.x_train.shape[1], cfg.validation_split)]
    ELSE [src |-> "train", lo |-> 0, hi |-> space.x_train.shape[1]]

ValPart(cfg, space) ==
    IF cfg.validation_split > 0
    THEN [src |-> "train",
          lo |-> SplitAt(space.x_train.shape[1], cfg.validation_split),
          hi |-> space.x_train.shape[1]]
    ELSE [src |-> "test", lo |-> 0, hi |-> space.x_test.shape[1]]

(***************************************************************************)
(* The statements.                                                         *)
(***************************************************************************)
At(op) == pc \in Stmts /\ Script[pc].op = op

\* the statement at pc has been executed; the script goes on to the next one
Advance ==
    /\ pc' = NextPc(pc)
    /\ runs' = [runs EXCEPT ![pc] = @ + 1]

Call(op, obj) == [op |-> op, obj |-> obj, backend |-> backend, stmt |-> pc]
Log(op, obj) == trace' = Append(trace, Call(op, obj))

\* !pip install -q keras-core
PipInstall ==
    /\ At("pip_install")
    /\ Advance
    /\ UNCHANGED <<inst, io, backend_string, mnist, environ, backend, imports, ns, objs,
                   files, fit, es, seen, trace>>

\* os.environ["KERAS_BACKEND"] = "jax"
SetBackend ==
    /\ At("setenv")
    /\ environ' = backend_string
    /\ Log("setenv", 0)
    /\ Advance
    /\ UNCHANGED <<inst, io, backend_string, mnist, backend, imports, ns, objs, files,
                   fit, es, seen>>

\* import keras_core as keras: the package reads KERAS_BACKEND when it is
\* first imported, and keeps that backend from then on
ImportKeras ==
    /\ At("import_keras")
    /\ backend' = IF backend # "none" THEN backend
                  ELSE IF environ = "unset" THEN DefaultBackend
                  ELSE environ
    /\ imports' = imports \cup {"keras_core"}
    /\ Log("import_keras", 0)
    /\ Advance
    /\ UNCHANGED <<inst, io, backend_string, mnist, environ, ns, objs, files, fit, es,
                   seen>>

\* (x_train, y_train), (x_test, y_test) = keras.datasets.mnist.load_data()
LoadData ==
    /\ At("load_data")
    /\ backend # "none"
    /\ ns' = [ns EXCEPT !.x_train = mnist.x_train, !.y_train = mnist.y_train,
                        !.x_test = mnist.x_test, !.y_test = mnist.y_test]
    /\ Log("load_data", 0)
    /\ Advance
    /\ UNCHANGED <<inst, io, backend_string, mnist, environ, backend, imports, objs,
                   files, fit, es, seen>>

\* x_train = x_train.astype("float32") / 255, and the same for x_test
Scale ==
    /\ At("scale")
    /\ ns' = [ns EXCEPT ![Script[pc].var] = ScaleImages(@)]
    /\ Advance
    /\ UNCHANGED <<inst, io, backend_string, mnist, environ, backend, imports, objs,
                   files, fit, es, seen, trace>>

\* x_train = np.expand_dims(x_train, -1), and the same for x_test
Expand ==
    /\ At("expand_dims")
    /\ ns' = [ns EXCEPT ![Script[pc].var] = ExpandDims(@, ExpandAxis)]
    /\ Advance
    /\ UNCHANGED <<inst, io, backend_string, mnist, environ, backend, imports, objs,
                   files, fit, es, seen, trace>>

\* model = keras.Sequential([...]) and model = MyModel(num_classes=10)
Construct ==
    /\ At("construct")
    /\ backend # "none"
    /\ Script[pc].cls = "MyModel" => "MyModel" \in ns.classes
    /\ objs' = Append(objs, [cls |-> Script[pc].cls, compiled |-> FALSE,
                             weights |-> 0])
    /\ ns' = [ns EXCEPT !.model = Len(objs) + 1]
    /\ Log("construct", Len(objs) + 1)
    /\ Advance
    /\ UNCHANGED <<inst, io, backend_string, mnist, environ, backend, imports, files,
                   fit, es, seen>>

\* model.summary()
Summary ==
    /\ At("summary")
    /\ ns.model # 0
    /\ Log("summary", ns.model)
    /\ Advance
    /\ UNCHANGED <<inst, io, backend_string, mnist, environ, backend, imports, ns, objs,
                   files, fit, es, seen>>

\* model.compile(loss=..., optimizer=..., metrics=[...])
Compile ==
    /\ At("compile")
    /\ ns.model # 0
    /\ objs' = [objs EXCEPT ![ns.model].compiled = TRUE]
    /\ Log("compile", ns.model)
    /\ Advance
    /\ UNCHANGED <<inst, io, backend_string, mnist, environ, backend, imports, ns, files,
                   fit, es, seen>>

\* model.fit(...) is entered: the validation data is set up and the
\* callbacks' on_train_begin runs
FitBegin ==
    /\ At("fit")
    /\ ~fit.active
    /\ ns.model # 0
    /\ Script[pc].cfg.data # "arrays" => Script[pc].cfg.data \in ns.datasets
    /\ fit' = [active |-> TRUE, stmt |-> pc, obj |-> ns.model, epoch |-> 0,
               train |-> TrainPart(Script[pc].cfg, ns),
               val |-> ValPart(Script[pc].cfg, ns),
               stop_training |-> FALSE, used |-> {}]
    /\ es' = IF \E i \in DOMAIN Script[pc].cfg.callbacks :
                    Script[pc].cfg.callbacks[i].cls = "EarlyStopping"
             THEN EarlyStoppingTrainBegin
             ELSE es
    /\ seen' = [min |-> Inf, noimp |-> 0]
    /\ Log("fit", ns.model)
    /\ UNCHANGED <<inst, io, backend_string, mnist, pc, runs, environ, backend, imports,
                   ns, objs, files>>

\* one epoch of the fit in progress: the training part updates the weights,
\* the validation part gives val_loss, then the callbacks' on_epoch_end run
FitEpoch ==
    /\ At("fit")
    /\ fit.active
    /\ fit.epoch < Script[pc].cfg.epochs
    /\ ~fit.stop_training
    /\ \E v \in LossValues :
        LET m == [objs[fit.obj] EXCEPT !.weights = @ + 1]
            st == CallbacksEpochEnd(Script[pc].cfg.callbacks, fit.epoch,
                                    [val_loss |-> v], m,
                                    [files |-> files, es |-> es, stop |-> FALSE])
            below == v # NaN /\ v < seen.min
        IN  /\ objs' = [objs EXCEPT ![fit.obj] = m]
            /\ files' = st.files
            /\ es' = st.es
            /\ fit' = [fit EXCEPT !.epoch = @ + 1,
                                  !.stop_training = st.stop,
                                  !.used = @ \cup {<<fit.train, fit.val>>}]
            /\ seen' = IF below THEN [min |-> v, noimp |-> 0]
                       ELSE [min |-> seen.min, noimp |-> seen.noimp + 1]
    /\ UNCHANGED <<inst, io, backend_string, mnist, pc, runs, environ, backend, imports,
                   ns, trace>>

\* model.fit(...) returns: all epochs are done, or a callback has set
\* stop_training
FitReturn ==
    /\ At("fit")
    /\ fit.active
    /\ fit.epoch = Script[pc].cfg.epochs \/ fit.stop_training
    /\ fit' = [fit EXCEPT !.active = FALSE]
    /\ Advance
    /\ UNCHANGED <<inst, io, backend_string, mnist, environ, backend, imports, ns, objs,
                   files, es, seen, trace>>

\* score = model.evaluate(x_test, y_test, verbose=0)
Evaluate ==
    /\ At("evaluate")
    /\ ns.model # 0
    /\ ns' = [ns EXCEPT !.score = "computed"]
    /\ Log("evaluate", ns.model)
    /\ Advance
    /\ UNCHANGED <<inst, io, backend_string, mnist, environ, backend, imports, objs,
                   files, fit, es, seen>>

\* model.save("final_model.keras")
Save ==
    /\ At("save")
    /\ ns.model # 0
    /\ files' = WriteFile(files, Script[pc].path,
                          [arch |-> objs[ns.model].cls,
                           weights |-> objs[ns.model].weights,
                           at_epoch |-> 0])
    /\ Log("save", ns.model)
    /\ Advance
    /\ UNCHANGED <<inst, io, backend_string, mnist, environ, backend, imports, ns, objs,
                   fit, es, seen>>

\* model = keras.saving.load_model("final_model.keras"): a new instance built
\* from the file
LoadModel ==
    /\ At("load_model")
    /\ Script[pc].path \in DOMAIN files
    /\ objs' = Append(objs, [cls |-> files[Script[pc].path].arch,
                             compiled |-> TRUE,
                             weights |-> files[Script[pc].path].weights])
    /\ ns' = [ns EXCEPT !.model = Len(objs) + 1]
    /\ Log("load_model", Len(objs) + 1)
    /\ Advance
    /\ UNCHANGED <<inst, io, backend_string, mnist, environ, backend, imports, files,
                   fit, es, seen>>

\* predictions = model.predict(x_test)
Predict ==
    /\ At("predict")
    /\ ns.model # 0
    /\ ns' = [ns EXCEPT !.predictions =
                [shape |-> <<ns.x_test.shape[1], num_classes>>,
                 dtype |-> "float32", px |-> <<>>]]
    /\ Log("predict", ns.model)
    /\ Advance
    /\ UNCHANGED <<inst, io, backend_string, mnist, environ, backend, imports, objs,
                   files, fit, es, seen>>

\* class MyDense / MyDropout / MyModel: the name is bound to the class
ClassDef ==
    /\ At("class")
    /\ backend # "none"
    /\ ns' = [ns EXCEPT !.classes = @ \cup {Script[pc].name}]
    /\ Advance
    /\ UNCHANGED <<inst, io, backend_string, mnist, environ, backend, imports, objs,
                   files, fit, es, seen, trace>>

\* import torch, import tensorflow as tf
ImportLib ==
    /\ At("import")
    /\ imports' = imports \cup {Script[pc].lib}
    /\ Advance
    /\ UNCHANGED <<inst, io, backend_string, mnist, environ, backend, ns, objs, files,
                   fit, es, seen, trace>>

\* the DataLoaders and the tf.data datasets over (x_train, y_train) and
\* (x_test, y_test)
Datasets ==
    /\ At("datasets")
    /\ ns' = [ns EXCEPT !.datasets = @ \cup {Script[pc].lib}]
    /\ Advance
    /\ UNCHANGED <<inst, io, backend_string, mnist, environ, backend, imports, objs,
                   files, fit, es, seen, trace>>

Next ==
    \/ PipInstall
    \/ SetBackend
    \/ ImportKeras
    \/ LoadData
    \/ Scale
    \/ Expand
    \/ Construct
    \/ Summary
    \/ Compile
    \/ FitBegin
    \/ FitEpoch
    \/ FitReturn
    \/ Evaluate
    \/ Save
    \/ LoadModel
    \/ Predict
    \/ ClassDef
    \/ ImportLib
    \/ Datasets

Spec == Init /\ [][Next]_vars

(***************************************************************************)
(* The data cell on its own: the kernel has run the setup cell, and        *)
(* load_data() returns images of any sample count and pixel values.        *)
(***************************************************************************)
SetupTrace ==
    <<[op |-> "setenv", obj |-> 0, backend |-> "none", stmt |-> 2],
      [op |-> "import_keras", obj |-> 0, backend |-> "none", stmt |-> 3]>>

InitSetupDone ==
    /\ InitCommon
    /\ environ = backend_string
    /\ backend = backend_string
    /\ imports = {"numpy", "os", "keras_core"}
    /\ trace = SetupTrace
    /\ pc = DataCell
    /\ runs = [i \in Stmts |-> IF i < DataCell THEN 1 ELSE 0]

InitPrep ==
    /\ InitSetupDone
    /\ mnist \in ImageData
    /\ inst = NoInst
    /\ io = NoCall
    /\ ns = [x_train |-> NoArray, y_train |-> NoArray, x_test |-> NoArray,
             y_test |-> NoArray, model |-> 0, score |-> "none",
             predictions |-> NoArray, classes |-> {}, datasets |-> {}]

NextPrep ==
    \/ LoadData
    \/ Scale
    \/ Expand

SpecPrep == InitPrep /\ [][NextPrep]_vars

(***************************************************************************)
(* The custom classes.  A tensor is given by its shape.                    *)
(***************************************************************************)
ShapeError == <<-1>>
Last(s) == s[Len(s)]

\* keras.ops.matmul(a, w) for a 2-D w
MatmulShape(a, w) ==
    IF Len(a) >= 1 /\ Len(w) = 2 /\ Last(a) = w[1]
    THEN SubSeq(a, 1, Len(a) - 1) \o <<w[2]>>
    ELSE ShapeError

\* x + b for a 1-D b, broadcast over the last axis
AddShape(x, b) ==
    IF x # ShapeError /\ Len(x) >= 1 /\ Len(b) = 1 /\ (Last(x) = b[1] \/ b[1] = 1)
    THEN x
    ELSE ShapeError

\* MyDense.__init__(units, activation)
MyDenseInit(units, activation) ==
    [cls |-> "MyDense", units |-> units, activation |-> activation,
     built |-> FALSE, weights |-> <<>>]

\* Layer.add_weight(shape, initializer, name, trainable)
AddWeight(layer, shape, initializer, name, trainable) ==
    [layer EXCEPT !.weights =
        Append(@, [shape |-> shape, initializer |-> initializer,
                   name |-> name, trainable |-> trainable])]

\* a build that reads the first dimension of the input shape
MyDenseBuildFirstDim(layer, input_shape) ==
    LET input_dim == input_shape[1]
        withW == AddWeight(layer, <<input_dim, layer.units>>, "GlorotNormal",
                           "kernel", TRUE)
        withB == AddWeight(withW, <<layer.units>>, "Zeros", "bias", TRUE)
    IN  [withB EXCEPT !.built = TRUE]

\* MyDense.build(input_shape)
MyDenseBuild(layer, input_shape) ==
    LET input_dim == Last(input_shape)
        withW == AddWeight(layer, <<input_dim, layer.units>>, "GlorotNormal",
                           "kernel", TRUE)
        withB == AddWeight(withW, <<layer.units>>, "Zeros", "bias", TRUE)
    IN  [withB EXCEPT !.built = TRUE]

\* MyDense.call(inputs): activation(matmul(inputs, w) + b); an activation
\* keeps the shape
MyDenseCall(layer, inputs) ==
    AddShape(MatmulShape(inputs, layer.weights[1].shape), layer.weights[2].shape)

\* MyDropout.__init__(rate)
MyDropoutInit(rate) ==
    [cls |-> "MyDropout", rate |-> rate, seed |-> 1337, draws |-> 0]

\* MyDropout.call(inputs): keras.random.dropout(inputs, rate, seed=...)
\* zeroes entries of inputs and scales the others
MyDropoutCall(layer, inputs) == inputs

\* Conv2D(filters, kernel_size=(k, k)): padding "valid", stride 1, channels last
Conv2DShape(s, filters, k) ==
    IF Len(s) = 4 /\ s[2] >= k /\ s[3] >= k
    THEN <<s[1], s[2] - k + 1, s[3] - k + 1, filters>>
    ELSE ShapeError

\* MaxPooling2D(pool_size=(p, p)): padding "valid", stride p
MaxPooling2DShape(s, p) ==
    IF Len(s) = 4 /\ s[2] >= p /\ s[3] >= p
    THEN <<s[1], (s[2] - p) \div p + 1, (s[3] - p) \div p + 1, s[4]>>
    ELSE ShapeError

\* GlobalAveragePooling2D(): the mean over the two spatial axes
GlobalAveragePooling2DShape(s) ==
    IF Len(s) = 4 THEN <<s[1], s[4]>> ELSE ShapeError

LayerShape(l, s) ==
    CASE l.cls = "Conv2D" -> Conv2DShape(s, l.filters, l.kernel_size)
      [] l.cls = "MaxPooling2D" -> MaxPooling2DShape(s, l.pool_size)
      [] l.cls = "GlobalAveragePooling2D" -> GlobalAveragePooling2DShape(s)

\* Sequential.call: the layers one after the other; the shapes after each
RECURSIVE SequentialShapes(_, _)
SequentialShapes(layers, s) ==
    IF layers = <<>>
    THEN <<>>
    ELSE LET t == LayerShape(Head(layers), s)
         IN  <<t>> \o SequentialShapes(Tail(layers), t)

\* self.conv_base of MyModel
ConvBase ==
    <<[cls |-> "Conv2D", filters |-> 64, kernel_size |-> 3],
      [cls |-> "Conv2D", filters |-> 64, kernel_size |-> 3],
      [cls |-> "MaxPooling2D", pool_size |-> 2],
      [cls |-> "Conv2D", filters |-> 128, kernel_size |-> 3],
      [cls |-> "Conv2D", filters |-> 128, kernel_size |-> 3],
      [cls |-> "GlobalAveragePooling2D"]>>

\* MyDropout(0.5), the rate in percent
DropoutRate == 50

\* MyModel.__init__(num_classes)
MyModelInit(n) ==
    [cls |-> "MyModel", conv_base |-> ConvBase, dp |-> MyDropoutInit(DropoutRate),
     dense |-> MyDenseInit(n, "softmax")]

\* Layer.__call__: a layer is built on its first call, from the input's shape
Built(layer, input_shape) ==
    IF layer.built THEN layer ELSE MyDenseBuild(layer, input_shape)

\* MyModel.call(x), with the stages it went through
MyModelCall(m, x) ==
    LET convs == SequentialShapes(m.conv_base, x)
        x1 == convs[Len(convs)]
        x2 == MyDropoutCall(m.dp, x1)
        x3 == MyDenseCall(Built(m.dense, x2), x2)
    IN  [y |-> x3,
         stages |-> <<[layer |-> "conv_base", out |-> x1, inner |-> convs],
                      [layer |-> "dp", out |-> x2, inner |-> <<>>],
                      [layer |-> "dense", out |-> x3, inner |-> <<>>]>>]

input_shape == <<ImageSide, ImageSide, 1>>

\* the instances and input shapes drawn
DenseInputs ==
    {<<b, d>> : b \in 1..MaxBatch, d \in 1..MaxDim}
    \cup {<<b, t, d>> : b \in 1..MaxBatch, t \in {2}, d \in 1..MaxDim}
Instances ==
    {[inst |-> MyDenseInit(u, a), x |-> x] :
        u \in 1..MaxUnits, a \in {"linear", "softmax"}, x \in DenseInputs}
    \cup {[inst |-> MyDropoutInit(DropoutRate), x |-> x] :
            x \in DenseInputs \cup {<<b>> \o input_shape : b \in 1..MaxBatch}}
    \cup {[inst |-> MyModelInit(n), x |-> <<b>> \o input_shape] :
            n \in {1, MaxUnits, num_classes}, b \in {1, MaxBatch, batch_size}}

InitShapes ==
    /\ InitSetupDone
    /\ mnist \in {d \in MnistData : d.x_train.px[1] = 0}
    /\ \E c \in Instances :
        /\ inst = c.inst
        /\ io = [NoCall EXCEPT !.x = c.x]
    /\ ns = [x_train |-> NoArray, y_train |-> NoArray, x_test |-> NoArray,
             y_test |-> NoArray, model |-> 0, score |-> "none",
             predictions |-> NoArray,
             classes |-> {"MyDense", "MyDropout", "MyModel"}, datasets |-> {}]

Kernel ==
    <<backend_string, mnist, pc, runs, environ, backend, imports, ns, objs,
      files, fit, es, seen, trace>>

\* layer.build(input_shape), called directly
DenseBuild ==
    /\ inst.cls = "MyDense"
    /\ ~inst.built
    /\ ~io.called
    /\ inst' = MyDenseBuild(inst, io.x)
    /\ UNCHANGED <<io, Kernel>>

\* layer(x) for a MyDense
DenseCall ==
    /\ inst.cls = "MyDense"
    /\ ~io.called
    /\ inst' = Built(inst, io.x)
    /\ io' = [io EXCEPT !.called = TRUE, !.y = MyDenseCall(inst', io.x)]
    /\ UNCHANGED Kernel

\* layer(x) for a MyDropout
DropoutCall ==
    /\ inst.cls = "MyDropout"
    /\ ~io.called
    /\ inst' = [inst EXCEPT !.draws = @ + 1]
    /\ io' = [io EXCEPT !.called = TRUE, !.y = MyDropoutCall(inst, io.x)]
    /\ UNCHANGED Kernel

\* model(x) for a MyModel
ModelCall ==
    /\ inst.cls = "MyModel"
    /\ ~io.called
    /\ LET r == MyModelCall(inst, io.x)
       IN  /\ inst' = [inst EXCEPT !.dense = Built(@, r.stages[2].out)]
           /\ io' = [io EXCEPT !.called = TRUE, !.y = r.y, !.stages = r.stages]
    /\ UNCHANGED Kernel

NextShapes ==
    \/ DenseBuild
    \/ DenseCall
    \/ DropoutCall
    \/ ModelCall

SpecShapes == InitShapes /\ [][NextShapes]_vars

(***************************************************************************)
(* Properties.                                                             *)
(***************************************************************************)
Finished == pc = Len(Script) + 1
Ops(t) == [i \in DOMAIN t |-> t[i].op]

\* C1: KERAS_BACKEND is written, to one of the three backends, before
\* keras_core is imported; no statement after the import writes it; and every
\* call made after the import runs on the backend that was written.
C1_BackendSetBeforeImport ==
    /\ environ \in Backends \cup {"unset"}
    /\ \A i \in DOMAIN trace :
        trace[i].op = "import_keras" =>
            /\ \E j \in 1..(i - 1) : trace[j].op = "setenv"
            /\ environ \in Backends
            /\ backend = environ
            /\ \A j \in (i + 1)..Len(trace) :
                /\ trace[j].op # "setenv"
                /\ trace[j].backend = environ

\* C1 witness: the whole notebook has run on the torch backend
C1_Witness ==
    /\ Finished
    /\ backend = "torch"
    /\ Len(trace) > 3

\* the calls the notebook makes on models, in the order of the cells
ModelOps ==
    {"construct", "compile", "fit", "evaluate", "save", "load_model", "predict"}
IsModelOp(c) == c.op \in ModelOps
ModelCalls == SelectSeq(trace, IsModelOp)
ExpectedCalls ==
    <<"construct", "compile", "fit", "evaluate", "save", "load_model", "predict",
      "construct", "compile", "fit",
      "construct", "compile", "fit",
      "construct", "compile", "fit">>

\* C6: every statement is executed once, in the order of the cells; the calls
\* on models are construct, compile, fit, evaluate, save, load_model, predict,
\* then three times construct (a MyModel), compile, fit, whatever the backend,
\* the data and the results of the calls; and every instance that fit is
\* called on has been compiled before.
C6_LinearScript ==
    /\ \A i \in Stmts : runs[i] = IF i < pc THEN 1 ELSE 0
    /\ Len(ModelCalls) <= Len(ExpectedCalls)
    /\ Ops(ModelCalls) = SubSeq(ExpectedCalls, 1, Len(ModelCalls))
    /\ Finished => Len(ModelCalls) = Len(ExpectedCalls)
    /\ \A i \in DOMAIN ModelCalls :
        /\ ModelCalls[i].op = "construct" =>
            objs[ModelCalls[i].obj].cls = IF i = 1 THEN "Sequential" ELSE "MyModel"
        /\ ModelCalls[i].op = "fit" =>
            \E j \in 1..(i - 1) :
                /\ ModelCalls[j].op = "compile"
                /\ ModelCalls[j].obj = ModelCalls[i].obj

\* C6 witness: the last fit has returned, after sixteen calls on five instances
C6_Witness ==
    /\ Finished
    /\ Len(ModelCalls) = 16
    /\ Len(objs) = 5
    /\ \A i \in Stmts : runs[i] = 1

\* the first fit is in progress, or has returned and no later fit has begun
InFirstFit == fit.stmt = FirstFit
FirstFitReturned == InFirstFit /\ ~fit.active /\ pc > FirstFit

CheckpointName(e) == "model_at_epoch_" \o ToString(e) \o ".keras"
CheckpointFiles == (DOMAIN files) \ {FinalPath}

\* C3: in the first fit, once k epochs are done the checkpoint files are
\* exactly those of epochs 1..k; the file of epoch e holds the model as it was
\* at the end of epoch e, and was written once, so no later epoch has
\* overwritten it.
C3_CheckpointPerEpoch ==
    InFirstFit =>
        /\ CheckpointFiles = {CheckpointName(e) : e \in 1..fit.epoch}
        /\ Cardinality(CheckpointFiles) = fit.epoch
        /\ \A e \in 1..fit.epoch :
            /\ files[CheckpointName(e)].writes = 1
            /\ files[CheckpointName(e)].at_epoch = e
            /\ files[CheckpointName(e)].weights = e
            /\ files[CheckpointName(e)].arch = "Sequential"

\* C3 witness: the first fit has returned after all 20 epochs, with 20 files
C3_Witness ==
    /\ FirstFitReturned
    /\ fit.epoch = 20
    /\ Cardinality(CheckpointFiles) = 20
    /\ objs[fit.obj].weights = 20

Size(part) == part.hi - part.lo
\* the fit takes its validation data from the arrays it is given
SplitsArrays == fit.stmt # 0 /\ Script[fit.stmt].cfg.validation_split > 0

\* C5: in a fit with validation_split=0.15 the training part and the
\* validation part are disjoint parts of (x_train, y_train) that together
\* hold all its samples; the validation part is 15% of them, 9000 of 60000;
\* and every epoch of the fit uses that same partition.
C5_ValidationSplit ==
    SplitsArrays =>
        LET n == ns.x_train.shape[1] IN
        /\ fit.train.src = "train" /\ fit.val.src = "train"
        /\ 0 <= fit.train.lo /\ fit.train.lo <= fit.train.hi /\ fit.train.hi <= n
        /\ 0 <= fit.val.lo /\ fit.val.lo <= fit.val.hi /\ fit.val.hi <= n
        /\ fit.train.hi <= fit.val.lo \/ fit.val.hi <= fit.train.lo
        /\ Size(fit.train) + Size(fit.val) = n
        /\ 100 * Size(fit.val) = 15 * n
        /\ n = 60000 /\ Size(fit.val) = 9000
        /\ fit.used = IF fit.epoch = 0 THEN {} ELSE {<<fit.train, fit.val>>}

\* C5 witness: the first fit is in its fifth epoch, the four before it run on
\* the 51000 training and 9000 validation samples
C5_Witness ==
    /\ InFirstFit
    /\ fit.active
    /\ fit.epoch = 4
    /\ fit.used = {<<fit.train, fit.val>>}
    /\ Size(fit.train) = 51000
    /\ Size(fit.val) = 9000

\* C8, in a state: the first fit runs at most 20 epochs and at least one
\* before it returns; val_loss never goes more than 2 epochs without
\* improving on its best value so far; the fit returns before epoch 20 only
\* at the end of the second such epoch; evaluate is called only after the
\* fit has returned.
C8_State ==
    /\ InFirstFit =>
        /\ fit.epoch <= 20
        /\ seen.noimp <= 2
        /\ ~fit.active => fit.epoch >= 1
        /\ (~fit.active /\ fit.epoch < 20) => seen.noimp = 2
    /\ \A i \in DOMAIN trace :
        trace[i].op = "evaluate" =>
            /\ runs[FirstFit] = 1
            /\ ~(fit.active /\ fit.stmt = FirstFit)
            /\ \E j \in 1..(i - 1) : trace[j].op = "fit"

\* C8, in a step: the first fit runs another epoch only if val_loss has
\* improved in one of the last 2 epochs, and returns before epoch 20 only if
\* it has not.
C8_Step ==
    /\ (InFirstFit /\ fit.active /\ fit'.epoch = fit.epoch + 1) => seen.noimp < 2
    /\ (InFirstFit /\ fit.active /\ ~fit'.active /\ fit.epoch < 20) => seen.noimp = 2

\* C8: the first fit runs between 1 and 20 epochs, and stops before epoch 20
\* exactly when val_loss has not improved on its best value so far for 2
\* epochs in a row, at the end of the second of them; evaluate is called only
\* after the fit has stopped.
C8_EarlyStopping == [](C8_State) /\ [][C8_Step]_vars

\* C8 witness: the first fit has stopped early, after 7 epochs, the last two
\* without improvement, and evaluate has been called
C8_Witness ==
    /\ FirstFitReturned
    /\ fit.epoch = 7
    /\ seen.noimp = 2
    /\ seen.min < Inf
    /\ \E i \in DOMAIN trace : trace[i].op = "evaluate"

\* the data cell has been executed
DataCellDone == \A i \in DataCell..(DataCell + 4) : runs[i] = 1
Prepared(raw, x) ==
    /\ x.dtype = "float32"
    /\ x.shape = raw.shape \o <<1>>
    /\ x.shape[1] = raw.shape[1]
    /\ Tail(x.shape) = input_shape
    /\ \A i \in DOMAIN raw.px :
        /\ F32LessEq(F32Zero, x.px[i]) /\ F32LessEq(x.px[i], F32One)
        /\ raw.px[i] = 0 <=> x.px[i] = F32Zero
        /\ raw.px[i] = 255 <=> x.px[i] = F32One
        /\ \A j \in DOMAIN raw.px :
            raw.px[i] < raw.px[j] <=> F32Less(x.px[i], x.px[j])

\* C7: after the data cell, for images of shape (N, 28, 28) with pixels in
\* 0..255: every element of x_train and x_test is in [0, 1], 0 has become 0
\* and 255 has become 1, the order of the pixel values is kept, the shapes
\* are (N, 28, 28, 1) with N unchanged, each image has the model's
\* input_shape, and y_train and y_test are as loaded.
C7_DataPreparation ==
    DataCellDone =>
        /\ Prepared(mnist.x_train, ns.x_train)
        /\ Prepared(mnist.x_test, ns.x_test)
        /\ ns.y_train = mnist.y_train
        /\ ns.y_test = mnist.y_test

\* C7 witness: the data cell has run on images holding the pixels 254 and 255
C7_Witness ==
    /\ DataCellDone
    /\ mnist.x_train.px = <<254, 255>>
    /\ ns.x_train.px[2] = F32One
    /\ ns.x_train.shape = <<MaxSamples, 28, 28, 1>>

\* C9: MyDense.build on a shape ending in d creates exactly two weights, both
\* trainable, a kernel of shape (d, units) and a bias of shape (units,);
\* MyDense.call maps (B, d) to (B, units); MyDropout.call keeps the shape;
\* MyModel.call maps (B, 28, 28, 1) through conv_base (spatial sizes 26, 24,
\* 12, 10, 8, then (B, 128)), then dp, then dense, in that order, to
\* (B, num_classes).
C9_Shapes ==
    /\ (inst.cls = "MyDense" /\ inst.built) =>
        /\ Len(inst.weights) = 2
        /\ inst.weights[1].name = "kernel"
        /\ inst.weights[1].shape = <<io.x[Len(io.x)], inst.units>>
        /\ inst.weights[2].name = "bias"
        /\ inst.weights[2].shape = <<inst.units>>
        /\ \A i \in 1..2 : inst.weights[i].trainable
    /\ (inst.cls = "MyDense" /\ io.called /\ Len(io.x) = 2) =>
        io.y = <<io.x[1], inst.units>>
    /\ (inst.cls = "MyDropout" /\ io.called) => io.y = io.x
    /\ (inst.cls = "MyModel" /\ io.called) =>
        LET b == io.x[1] IN
        /\ [i \in 1..3 |-> io.stages[i].layer] = <<"conv_base", "dp", "dense">>
        /\ io.stages[1].inner =
            <<<<b, 26, 26, 64>>, <<b, 24, 24, 64>>, <<b, 12, 12, 64>>,
              <<b, 10, 10, 128>>, <<b, 8, 8, 128>>, <<b, 128>>>>
        /\ io.stages[1].out = <<b, 128>>
        /\ io.stages[2].out = <<b, 128>>
        /\ io.stages[3].out = <<b, inst.dense.units>>
        /\ io.y = <<b, inst.dense.units>>
        /\ inst.dense.weights[1].shape = <<128, inst.dense.units>>

\* C9 witness: a MyModel(10) has been called on a batch of 3 images
C9_Witness ==
    /\ inst.cls = "MyModel"
    /\ io.called
    /\ io.x = <<3, 28, 28, 1>>
    /\ io.y = <<3, 10>>
    /\ inst.dense.built

=============================================================================
